---- MODULE Spec2Model ----
(***************************************************************************)
(* Model of the vault scanner of srid/slate (src-tauri/src/vault.rs).      *)
(*                                                                         *)
(* scan_vault resolves the home directory, joins the argument onto it,     *)
(* checks that the joined path exists, walks the tree below it with        *)
(* walkdir (pruning hidden entries, dropping traversal errors, keeping     *)
(* markdown files), sorts the collected entries by relative path and       *)
(* returns them.                                                           *)
(*                                                                         *)
(* Strings are sequences of code points, OS file names are sequences of    *)
(* bytes, a PathBuf is a record [abs, comps] of its components (".." is    *)
(* kept as a component, as std::path does), and the filesystem is a tree   *)
(* of nodes that the environment may shrink while a scan is running.       *)
(***************************************************************************)
EXTENDS Naturals, Sequences, FiniteSets

VARIABLES
    fs,          \* the filesystem: [kind: node -> "dir" | "file" | "absent", noread: unreadable directories]
    home,        \* what dirs::home_dir() returns: [some, path]
    changes,     \* how many times the environment changed the filesystem
    pc,          \* per call: "idle", "home", "exists", "walk", "done"
    arg,         \* per call: vault_relative_path, as a path
    vault_root,  \* per call: home.join(vault_relative_path)
    stack,       \* per call: walkdir's stack of open directory listings
    results,     \* per call: the entries pushed so far, in traversal order
    out,         \* per call: the value returned
    fs0,         \* per call (history): the filesystem when the call began
    rootKind,    \* per call (history): what the root was when line 28 tested it
    seen         \* per call (history): the path of each entry of results

vars == <<fs, home, changes, pc, arg, vault_root, stack, results, out, fs0,
          rootKind, seen>>

\* ------------------------------------------------------------------ bytes

\* '.', the hidden-entry marker tested by is_hidden
Dot == 46
\* '/', the path separator of std::path on Unix
Slash == 47
\* '"' and '\', which the {:?} formatting of a path quotes with and escapes
Quote == 34
Backslash == 92
\* a byte that is no valid UTF-8 (0xFF): OsStr::to_str fails on a name holding it
InvalidByte == 255
\* U+FFFD, which to_string_lossy puts in place of an invalid byte
Replacement == 65533

\* the extension is_markdown_file compares with: "md"
MdExt == <<109, 100>>
\* ".."
DotDot == <<Dot, Dot>>

\* ------------------------------------------------------------------ names

nH == <<104>>
nO == <<111>>
nV == <<118>>
nS == <<115>>
nX == <<120>>
nW == <<Dot, 119>>
nG == <<Dot, 103>>
nA == <<97, Dot, 109, 100>>
nNote == <<110, Dot, 109, 100>>
nUpper == <<98, Dot, 77, 68>>
nTxt == <<99, Dot, 116, 120, 116>>
nDirMd == <<101, Dot, 109, 100>>
nHidFile == <<Dot, 110, Dot, 109, 100>>
nBad == <<Dot, InvalidByte, Dot, 109, 100>>

\* ------------------------------------------------------------- filesystem

\* Every node the tree can hold, as the sequence of names from "/".
Nodes ==
    { <<>>,
      <<nH>>,
      <<nH, nV>>, <<nH, nV, nA>>, <<nH, nV, nBad>>,
      <<nH, nV, nS>>, <<nH, nV, nS, nA>>, <<nH, nV, nS, nHidFile>>,
      <<nH, nV, nG>>, <<nH, nV, nG, nA>>,
      <<nH, nW>>, <<nH, nW, nA>>,
      <<nH, nNote>>,
      <<nO>>, <<nO, nA>>, <<nO, nUpper>>, <<nO, nTxt>>, <<nO, nDirMd>> }

DirNodes ==
    { <<>>, <<nH>>, <<nH, nV>>, <<nH, nV, nS>>, <<nH, nV, nG>>, <<nH, nW>>,
      <<nO>>, <<nO, nDirMd>> }

\* The directories that may start without read permission
InitialNoRead == { {}, { <<nH, nV, nS>> } }

InitialKind == [n \in Nodes |-> IF n \in DirNodes THEN "dir" ELSE "file"]

IsPrefix(s, t) == Len(s) <= Len(t) /\ SubSeq(t, 1, Len(s)) = s

Parent(n) == IF n = <<>> THEN <<>> ELSE SubSeq(n, 1, Len(n) - 1)

\* The node an OS lookup of the components cs reaches from the node cur, as a
\* set: {} when the lookup fails (ENOENT, ENOTDIR). Every step needs the node
\* it leaves to be a directory.
RECURSIVE LookupFrom(_, _, _)
LookupFrom(f, cur, cs) ==
    IF f.kind[cur] = "absent" THEN {}
    ELSE IF cs = <<>> THEN {cur}
    ELSE IF f.kind[cur] # "dir" THEN {}
    ELSE IF Head(cs) = DotDot THEN LookupFrom(f, Parent(cur), Tail(cs))
    ELSE IF Append(cur, Head(cs)) \in Nodes
         THEN LookupFrom(f, Append(cur, Head(cs)), Tail(cs))
         ELSE {}

Lookup(f, p) == LookupFrom(f, <<>>, p.comps)

\* stat(2) of a path: "dir", "file" or "absent"
KindOf(f, p) ==
    IF Lookup(f, p) = {} THEN "absent"
    ELSE f.kind[CHOOSE n \in Lookup(f, p) : TRUE]

\* Path::exists
PathExists(f, p) == KindOf(f, p) # "absent"

\* Path::is_file
PathIsFile(f, p) == KindOf(f, p) = "file"

\* Path::join: an absolute argument replaces the base
PathJoin(base, p) ==
    IF p.abs THEN p ELSE [abs |-> base.abs, comps |-> base.comps \o p.comps]

\* fs::read_dir fails on what is no directory and on a directory without read
\* permission
ReadDirFails(f, p) ==
    \/ KindOf(f, p) # "dir"
    \/ Lookup(f, p) \subseteq f.noread

\* fs::read_dir: the paths of the entries a directory lists
ReadDir(f, p) ==
    { PathJoin(p, [abs |-> FALSE, comps |-> <<m[Len(m)]>>]) :
        m \in { n \in Nodes : /\ n # <<>>
                              /\ {Parent(n)} = Lookup(f, p)
                              /\ f.kind[n] # "absent" } }

\* ---------------------------------------------------------------- strings

\* OsStr::to_str succeeds on valid UTF-8 only
ValidUtf8(name) == \A i \in 1..Len(name) : name[i] # InvalidByte

\* OsStr::to_string_lossy
RECURSIVE ToStringLossy(_)
ToStringLossy(name) ==
    IF name = <<>> THEN <<>>
    ELSE <<IF Head(name) = InvalidByte THEN Replacement ELSE Head(name)>>
         \o ToStringLossy(Tail(name))

\* The components joined with '/', as Path's string form has them.
RECURSIVE JoinComps(_)
JoinComps(cs) ==
    IF cs = <<>> THEN <<>>
    ELSE IF Len(cs) = 1 THEN cs[1]
    ELSE cs[1] \o <<Slash>> \o JoinComps(Tail(cs))

\* The bytes of a path
PathBytes(p) == (IF p.abs THEN <<Slash>> ELSE <<>>) \o JoinComps(p.comps)

\* path.to_string_lossy().to_string()
PathString(p) == ToStringLossy(PathBytes(p))

\* The {:?} formatting of a path: quoted, with quotes, backslashes and invalid
\* bytes escaped (\xFF is written as the four characters \ x F F)
RECURSIVE DebugEscape(_)
DebugEscape(bs) ==
    IF bs = <<>> THEN <<>>
    ELSE (IF Head(bs) = InvalidByte THEN <<Backslash, 120, 70, 70>>
          ELSE IF Head(bs) \in {Quote, Backslash} THEN <<Backslash, Head(bs)>>
          ELSE <<Head(bs)>>) \o DebugEscape(Tail(bs))

PathDebug(p) == <<Quote>> \o DebugEscape(PathBytes(p)) \o <<Quote>>

\* str::cmp: plain lexicographic comparison, a <= b
RECURSIVE StrLeq(_, _)
StrLeq(a, b) ==
    IF a = <<>> THEN TRUE
    ELSE IF b = <<>> THEN FALSE
    ELSE IF Head(a) # Head(b) THEN Head(a) < Head(b)
    ELSE StrLeq(Tail(a), Tail(b))

\* ------------------------------------------------------------------ paths

\* Path::file_name, as a sequence of at most one name: none for "/" and for a
\* path that ends in ".."
FileName(p) ==
    IF p.comps = <<>> \/ p.comps[Len(p.comps)] = DotDot THEN <<>>
    ELSE <<p.comps[Len(p.comps)]>>

\* The index of the last '.' of a name, 0 when it has none
LastDot(name) ==
    IF \E i \in 1..Len(name) : name[i] = Dot
    THEN CHOOSE i \in 1..Len(name) :
            /\ name[i] = Dot
            /\ \A j \in (i+1)..Len(name) : name[j] # Dot
    ELSE 0

\* Path::extension, as a sequence of at most one string: what follows the last
\* '.' of the file name, none when the name has no '.' or only a leading one
Extension(p) ==
    IF FileName(p) = <<>> THEN <<>>
    ELSE LET name == FileName(p)[1] IN
         IF LastDot(name) <= 1 THEN <<>>
         ELSE <<SubSeq(name, LastDot(name) + 1, Len(name))>>

\* Path::strip_prefix, as a sequence of at most one relative path
StripPrefix(p, base) ==
    IF p.abs = base.abs /\ IsPrefix(base.comps, p.comps)
    THEN <<[abs |-> FALSE,
            comps |-> SubSeq(p.comps, Len(base.comps) + 1, Len(p.comps))]>>
    ELSE <<>>

\* walkdir's DirEntry::file_name: the path's file name, or the whole path when
\* it has none
EntryFileName(p) == IF FileName(p) = <<>> THEN PathBytes(p) ELSE FileName(p)[1]

\* --------------------------------------------------------------- vault.rs

\* is_hidden: the entry's name decodes and starts with '.'
is_hidden(p) ==
    IF ValidUtf8(EntryFileName(p))
    THEN EntryFileName(p) # <<>> /\ EntryFileName(p)[1] = Dot
    ELSE FALSE

\* is_markdown_file
is_markdown_file(f, p) == PathIsFile(f, p) /\ Extension(p) = <<MdExt>>

\* The FileEntry pushed for the entry at path p (lines 41-59)
FileEntry(p, root) ==
    LET name == IF FileName(p) # <<>> /\ ValidUtf8(FileName(p)[1])
                THEN FileName(p)[1] ELSE <<>>
    IN [name |-> name,
        path |-> PathString(p),
        relative_path |-> IF StripPrefix(p, root) # <<>>
                          THEN PathString(StripPrefix(p, root)[1])
                          ELSE name]

\* Vec::sort_by is a stable sort: x goes behind every entry whose key is <= its own
InsertSorted(s, x) ==
    LET k == Cardinality({i \in 1..Len(s) :
                            StrLeq(s[i].relative_path, x.relative_path)})
    IN SubSeq(s, 1, k) \o <<x>> \o SubSeq(s, k + 1, Len(s))

RECURSIVE SortEntries(_)
SortEntries(rs) ==
    IF rs = <<>> THEN <<>>
    ELSE InsertSorted(SortEntries(SubSeq(rs, 1, Len(rs) - 1)), rs[Len(rs)])

\* Mutant: the sort of line 63 left out
Unsorted(rs) == rs

\* Mutant: the sort of line 63 keyed on name instead of relative_path
InsertByName(s, x) ==
    LET k == Cardinality({i \in 1..Len(s) : StrLeq(s[i].name, x.name)})
    IN SubSeq(s, 1, k) \o <<x>> \o SubSeq(s, k + 1, Len(s))

RECURSIVE SortByName(_)
SortByName(rs) ==
    IF rs = <<>> THEN <<>>
    ELSE InsertByName(SortByName(SubSeq(rs, 1, Len(rs) - 1)), rs[Len(rs)])

\* results.sort_by(|a, b| a.relative_path.cmp(&b.relative_path)) (line 63)
SortByRelativePath(rs) == SortEntries(rs)

\* Mutant: line 28 testing is_dir() instead of exists()
VaultRootNotDir(f, root) == KindOf(f, root) # "dir"

\* The test of line 28
VaultRootMissing(f, root) == ~PathExists(f, root)

\* ------------------------------------------------------------------ state

Callers == {1, 2}

\* How many changes the environment makes to the filesystem in one behaviour
MaxChanges == 1

Rel(cs) == [abs |-> FALSE, comps |-> cs]
Abs(cs) == [abs |-> TRUE, comps |-> cs]

\* The arguments the calls are made with: a vault, a vault with a hidden name,
\* a markdown file, a missing path, an absolute path and a path through ".."
Args == { Rel(<<nV>>), Rel(<<nW>>), Rel(<<nNote>>), Rel(<<nX>>),
          Abs(<<nO>>), Rel(<<DotDot, nO>>) }

HomePath == Abs(<<nH>>)

NoPath == Rel(<<>>)
NoOut == [kind |-> "None", text |-> "", path |-> <<>>, files |-> <<>>]

Ok(files) == [kind |-> "Ok", text |-> "", path |-> <<>>, files |-> files]
Err(text, path) == [kind |-> "Err", text |-> text, path |-> path, files |-> <<>>]

InitCalls ==
    /\ changes = 0
    /\ pc = [p \in Callers |-> "idle"]
    /\ arg = [p \in Callers |-> NoPath]
    /\ vault_root = [p \in Callers |-> NoPath]
    /\ stack = [p \in Callers |-> <<>>]
    /\ results = [p \in Callers |-> <<>>]
    /\ out = [p \in Callers |-> NoOut]
    /\ fs0 = [p \in Callers |-> fs]
    /\ rootKind = [p \in Callers |-> "unchecked"]
    /\ seen = [p \in Callers |-> <<>>]

Init ==
    /\ fs \in { [kind |-> InitialKind, noread |-> nr] : nr \in InitialNoRead }
    /\ home \in { [some |-> FALSE, path |-> NoPath], [some |-> TRUE, path |-> HomePath] }
    /\ InitCalls

\* The front end invokes scan_vault(a) (line 21)
Invoke(p, a) ==
    /\ pc[p] \in {"idle", "done"}
    /\ pc' = [pc EXCEPT ![p] = "home"]
    /\ arg' = [arg EXCEPT ![p] = a]
    /\ vault_root' = [vault_root EXCEPT ![p] = NoPath]
    /\ stack' = [stack EXCEPT ![p] = <<>>]
    /\ results' = [results EXCEPT ![p] = <<>>]
    /\ out' = [out EXCEPT ![p] = NoOut]
    /\ fs0' = [fs0 EXCEPT ![p] = fs]
    /\ rootKind' = [rootKind EXCEPT ![p] = "unchecked"]
    /\ seen' = [seen EXCEPT ![p] = <<>>]
    /\ UNCHANGED <<fs, home, changes>>

\* Lines 25-26: the home directory, or the first error
ResolveHome(p) ==
    /\ pc[p] = "home"
    /\ IF home.some
       THEN /\ vault_root' = [vault_root EXCEPT ![p] = PathJoin(home.path, arg[p])]
            /\ pc' = [pc EXCEPT ![p] = "exists"]
            /\ out' = out
       ELSE /\ out' = [out EXCEPT ![p] = Err("Could not determine home directory", <<>>)]
            /\ pc' = [pc EXCEPT ![p] = "done"]
            /\ vault_root' = vault_root
    /\ UNCHANGED <<fs, home, changes, arg, stack, results, fs0, rootKind, seen>>

\* Lines 28-33: the existence check, then WalkDir::new(&vault_root)
CheckExists(p) ==
    /\ pc[p] = "exists"
    /\ rootKind' = [rootKind EXCEPT ![p] = KindOf(fs, vault_root[p])]
    /\ IF VaultRootMissing(fs, vault_root[p])
       THEN /\ out' = [out EXCEPT ![p] =
                         Err("Vault path does not exist: ", PathDebug(vault_root[p]))]
            /\ pc' = [pc EXCEPT ![p] = "done"]
            /\ stack' = stack
       ELSE /\ stack' = [stack EXCEPT ![p] = << {vault_root[p]} >>]
            /\ pc' = [pc EXCEPT ![p] = "walk"]
            /\ out' = out
    /\ UNCHANGED <<fs, home, changes, arg, vault_root, results, fs0, seen>>

\* The stack without its exhausted listings
RECURSIVE DropExhausted(_)
DropExhausted(st) ==
    IF st # <<>> /\ st[Len(st)] = {} THEN DropExhausted(SubSeq(st, 1, Len(st) - 1))
    ELSE st

\* Lines 35-60, one turn of the loop: walkdir takes the next entry e of the
\* innermost open listing (in whatever order the directory lists them) and
\* opens it when it is a directory; filter_entry drops a hidden entry with all
\* that is below it; filter_map(Result::ok) drops the error of an entry that
\* cannot be read; filter keeps the markdown files.
WalkEntry(p, e) ==
    LET top == stack[p][Len(stack[p])]
        rest == [stack[p] EXCEPT ![Len(stack[p])] = top \ {e}]
        below == IF is_hidden(e) \/ ReadDirFails(fs, e) THEN {} ELSE ReadDir(fs, e)
        keep == ~is_hidden(e) /\ is_markdown_file(fs, e)
    IN /\ stack' = [stack EXCEPT ![p] = DropExhausted(Append(rest, below))]
       /\ results' = [results EXCEPT ![p] =
              IF keep THEN Append(@, FileEntry(e, vault_root[p])) ELSE @]
       /\ seen' = [seen EXCEPT ![p] = IF keep THEN Append(@, e) ELSE @]

WalkNext(p) ==
    /\ pc[p] = "walk"
    /\ stack[p] # <<>>
    /\ \E e \in stack[p][Len(stack[p])] : WalkEntry(p, e)
    /\ UNCHANGED <<fs, home, changes, pc, arg, vault_root, out, fs0, rootKind>>

\* Lines 62-72: the walk is over; sort and return
Finish(p) ==
    /\ pc[p] = "walk"
    /\ stack[p] = <<>>
    /\ out' = [out EXCEPT ![p] = Ok(SortByRelativePath(results[p]))]
    /\ pc' = [pc EXCEPT ![p] = "done"]
    /\ UNCHANGED <<fs, home, changes, arg, vault_root, stack, results, fs0,
                   rootKind, seen>>

\* Another process removes the entry at node n, with all that is below it
Remove(n) ==
    /\ changes < MaxChanges
    /\ n # <<>>
    /\ fs.kind[n] # "absent"
    /\ fs' = [kind |-> [m \in Nodes |-> IF IsPrefix(n, m) THEN "absent" ELSE fs.kind[m]],
              noread |-> {d \in fs.noread : ~IsPrefix(n, d)}]
    /\ changes' = changes + 1
    /\ UNCHANGED <<home, pc, arg, vault_root, stack, results, out, fs0, rootKind, seen>>

\* Another process takes the read permission of the directory at node d away
Protect(d) ==
    /\ changes < MaxChanges
    /\ fs.kind[d] = "dir"
    /\ d \notin fs.noread
    /\ fs' = [fs EXCEPT !.noread = @ \cup {d}]
    /\ changes' = changes + 1
    /\ UNCHANGED <<home, pc, arg, vault_root, stack, results, out, fs0, rootKind, seen>>

Call(p) ==
    \/ \E a \in Args : Invoke(p, a)
    \/ ResolveHome(p)
    \/ CheckExists(p)
    \/ WalkNext(p)
    \/ Finish(p)

\* One caller, and an environment that changes the tree under it
Next ==
    \/ Call(1)
    \/ \E n \in Nodes : Remove(n)
    \/ \E d \in Nodes : Protect(d)

Spec == Init /\ [][Next]_vars

\* Two callers over a tree that nothing changes
NextPar == \E p \in Callers : Call(p)

SpecPar == Init /\ [][NextPar]_vars

\* ----------------------------------------------------------------- claims

Done(p) == pc[p] = "done"
Returned(p) == Done(p) /\ out[p].kind = "Ok"
\* Nothing changed the tree since the call began
Static(p) == fs0[p] = fs

StartsWithDot(name) == name # <<>> /\ name[1] = Dot

Contains(s, t) == \E i \in 1..(Len(s) + 1) : SubSeq(s, i, i + Len(t) - 1) = t

\* The index of the last '/' of a string, 0 when it has none
LastSlash(s) ==
    IF \E i \in 1..Len(s) : s[i] = Slash
    THEN CHOOSE i \in 1..Len(s) :
            /\ s[i] = Slash
            /\ \A j \in (i+1)..Len(s) : s[j] # Slash
    ELSE 0

LastComponent(s) == SubSeq(s, LastSlash(s) + 1, Len(s))

JoinStrings(a, r) == IF r = <<>> THEN a ELSE a \o <<Slash>> \o r

\* The paths, as the walk from root names them, of the files the contract
\* wants in the result over the tree f: regular files below root with the
\* extension md, no name from root down starting with '.', and every directory
\* from root down readable.
Wanted(f, root) ==
    { PathJoin(root, Rel(SubSeq(n, Len(rn) + 1, Len(n)))) :
        <<rn, n>> \in { <<r, m>> \in Lookup(f, root) \X Nodes :
            /\ IsPrefix(r, m) /\ m # r
            /\ f.kind[m] = "file"
            /\ Extension(Abs(m)) = <<MdExt>>
            /\ \A i \in (Len(r) + 1)..Len(m) :
                  /\ ~StartsWithDot(m[i])
                  /\ f.kind[SubSeq(m, 1, i - 1)] = "dir"
                  /\ SubSeq(m, 1, i - 1) \notin f.noread } }

PathsOf(files) == { files[i].path : i \in 1..Len(files) }

\* The entry each returned descriptor was built from
EntriesOf(p) ==
    { seen[p][j] : j \in { k \in 1..Len(results[p]) :
                             \E i \in 1..Len(out[p].files) :
                                out[p].files[i] = results[p][k] } }

\* C1 (as claimed): over an unchanged tree, a root that is a directory,
\* whatever its own name, yields every readable, non-hidden md file below it.
C1_Complete ==
    \A p \in Callers :
        (Done(p) /\ Static(p) /\ home.some /\ KindOf(fs, vault_root[p]) = "dir")
        => /\ out[p].kind = "Ok"
           /\ \A e \in Wanted(fs, vault_root[p]) :
                 PathString(e) \in PathsOf(out[p].files)

\* C2 (as claimed): every returned descriptor is a regular file with the
\* extension md, and no component of its path below the root starts with '.'.
C2_Sound ==
    \A p \in Callers :
        (Returned(p) /\ Static(p))
        => /\ \A i \in 1..Len(out[p].files) :
                 \E j \in 1..Len(results[p]) : results[p][j] = out[p].files[i]
           /\ \A e \in EntriesOf(p) :
                 /\ PathIsFile(fs, e)
                 /\ Extension(e) = <<MdExt>>
                 /\ StripPrefix(e, vault_root[p]) # <<>>
                 /\ \A i \in 1..Len(StripPrefix(e, vault_root[p])[1].comps) :
                       ~StartsWithDot(StripPrefix(e, vault_root[p])[1].comps[i])

\* C3: a returned sequence is sorted ascending by relativePath: each
\* descriptor's relativePath is <= the next one's.
C3_Sorted ==
    \A p \in Callers :
        Returned(p)
        => \A i \in 1..(Len(out[p].files) - 1) :
              StrLeq(out[p].files[i].relative_path, out[p].files[i + 1].relative_path)

\* C3's case: a result of several descriptors that the walk met in another order
C3_Witness ==
    \E p \in Callers :
        /\ Returned(p)
        /\ Len(out[p].files) >= 3
        /\ results[p] # out[p].files

\* C4 (as claimed): a root that is absent, or that exists but is no directory,
\* makes the call fail with the attempted path in the message and no
\* descriptor.
C4_NotADirectoryFails ==
    \A p \in Callers :
        (Done(p) /\ home.some /\ rootKind[p] \in {"absent", "file"})
        => /\ out[p].kind = "Err"
           /\ Contains(out[p].path, PathString(vault_root[p]))
           /\ out[p].files = <<>>

\* C5: the call fails exactly when the home directory is unknown (found first:
\* the root is then never tested) or the root is absent when line 28 tests it,
\* and a failure comes before any traversal; every other call succeeds.
C5_ErrorsOnlyUpFront ==
    \A p \in Callers :
        /\ pc[p] = "walk" => out[p].kind = "None"
        /\ Done(p) =>
            /\ out[p].kind \in {"Ok", "Err"}
            /\ out[p].kind = "Err" <=> (~home.some \/ rootKind[p] = "absent")
            /\ ~home.some => (rootKind[p] = "unchecked" /\ out[p].path = <<>>)
            /\ out[p].kind = "Err" =>
                  /\ results[p] = <<>> /\ seen[p] = <<>> /\ stack[p] = <<>>
                  /\ out[p].files = <<>>

\* C5's case: the root passed the test of line 28 and was gone when the walk
\* looked at it: the call succeeds with an empty sequence.
C5_Witness ==
    \E p \in Callers :
        /\ Returned(p)
        /\ rootKind[p] = "dir"
        /\ KindOf(fs, vault_root[p]) = "absent"
        /\ out[p].files = <<>>

C7_UnderHome ==
    \A p \in Callers :
        (Returned(p) /\ out[p].files # <<>>)
        => /\ \A r \in Lookup(fs0[p], vault_root[p]) : IsPrefix(home.path.comps, r)
           /\ \A i \in 1..Len(out[p].files) :
                 IsPrefix(PathString(home.path) \o <<Slash>>, out[p].files[i].path)

\* C8 (as claimed): every returned descriptor has a non-empty relativePath.
C8_RelativePathNonEmpty ==
    \A p \in Callers :
        Returned(p)
        => \A i \in 1..Len(out[p].files) : out[p].files[i].relative_path # <<>>

\* C9: two finished calls with the same argument hold the same value, however
\* the calls before them and beside them ran.
C9_SameResult ==
    \A p, q \in Callers :
        (Done(p) /\ Done(q) /\ arg[p] = arg[q]) => out[p] = out[q]

\* C9's case: two calls on the same vault whose walks met the entries in
\* different orders
C9_Witness ==
    \E p, q \in Callers :
        /\ p # q
        /\ Returned(p) /\ Returned(q)
        /\ arg[p] = arg[q]
        /\ Len(out[p].files) >= 3
        /\ results[p] # results[q]

\* C10 (as claimed): path is the root joined with relativePath, name is the
\* last component of relativePath, and no two descriptors share a path.
C10_FieldsConsistent ==
    \A p \in Callers :
        Returned(p)
        => /\ \A i \in 1..Len(out[p].files) :
                 /\ out[p].files[i].path =
                       JoinStrings(PathString(vault_root[p]), out[p].files[i].relative_path)
                 /\ out[p].files[i].name = LastComponent(out[p].files[i].relative_path)
           /\ \A i, j \in 1..Len(out[p].files) :
                 out[p].files[i].path = out[p].files[j].path => i = j

====
